---- MODULE Spec2Model ----
(***************************************************************************)
(* A model of midi_repair: the repair engine (core/repair.py), the         *)
(* analyzer (core/analyzer.py), the command line (cli.py), the segment     *)
(* export engine with its seconds-to-ticks converter (gui/export.py), the  *)
(* canvas of segments (gui/visualization.py) and the window (app.py).      *)
(*                                                                         *)
(* A MIDI file is a record [type, ticks_per_beat, tracks]; a track is a    *)
(* sequence of messages; a message is a record with a type, a delta time   *)
(* (time) and, for set_tempo, a tempo in microseconds per beat.            *)
(*                                                                         *)
(* Python floats are modelled as exact rationals <<n, d>> (d > 0, lowest   *)
(* terms), so seconds, BPM values and ticks-per-second keep their          *)
(* fractional part and int() is a real truncation.                         *)
(***************************************************************************)
EXTENDS Integers, Sequences, FiniteSets, TLC

VARIABLES mid, fs, op, arg, ret, out, calls, canvas, app

vars == <<mid, fs, op, arg, ret, out, calls, canvas, app>>

(***************************************************************************)
(* Bounds of the model.                                                    *)
(***************************************************************************)
MaxTracks == 2
MaxTrackLen == 2
MaxDelta == 480
MaxSections == 2
MaxBpm == 8000
MaxRamp == 11

\* the longest file of the window, in steps of 0.05 s
MaxDuration == 6

\* the most snapshots the undo stack holds, and the most sections of the canvas
MaxUndo == 2

MaxSegments == 3

\* 0.1 s, the least distance of two boundaries, in steps of 0.05 s
Tenth == 2

StepsPerSecond == 10 * Tenth

(***************************************************************************)
(* Program constants.                                                      *)
(***************************************************************************)
MicrosecondsPerMinute == 60000000
MaxTempo == 16777215
DefaultTempo == 500000
DefaultBpm == 80

(***************************************************************************)
(* Exact rational arithmetic standing for Python's float arithmetic.       *)
(***************************************************************************)
RECURSIVE GCD(_, _)
GCD(a, b) == IF b = 0 THEN a ELSE GCD(b, a % b)

Abs(a) == IF a < 0 THEN 0 - a ELSE a

Rat(n, d) ==
    LET g == GCD(Abs(n), Abs(d))
        s == IF d < 0 THEN 0 - 1 ELSE 1
    IN  <<(s * n) \div g, (s * d) \div g>>

RInt(n) == <<n, 1>>

RAdd(x, y) ==
    LET g == GCD(x[2], y[2])
    IN  Rat(x[1] * (y[2] \div g) + y[1] * (x[2] \div g), (x[2] \div g) * y[2])

RSub(x, y) == RAdd(x, <<0 - y[1], y[2]>>)

RMul(x, y) ==
    LET g1 == GCD(Abs(x[1]), y[2])
        g2 == GCD(Abs(y[1]), x[2])
    IN  Rat((x[1] \div g1) * (y[1] \div g2), (x[2] \div g2) * (y[2] \div g1))

\* x / y, for y # 0
RDiv(x, y) == RMul(x, Rat(y[2], y[1]))

RLess(x, y) == RSub(x, y)[1] < 0

RLeq(x, y) == RSub(x, y)[1] <= 0

\* int(x): truncation toward zero
RTrunc(x) == IF x[1] >= 0 THEN x[1] \div x[2] ELSE 0 - ((0 - x[1]) \div x[2])

\* round(x): Python 3 rounds halves to the even neighbour
RRound(x) ==
    LET fl == x[1] \div x[2]
        twice == 2 * (x[1] - fl * x[2])
    IN  IF twice < x[2] THEN fl
        ELSE IF twice > x[2] THEN fl + 1
        ELSE IF fl % 2 = 0 THEN fl ELSE fl + 1

(***************************************************************************)
(* mido's tempo codec and message checks.                                  *)
(***************************************************************************)
\* mido.tempo2bpm(tempo) = 60 * 1e6 / tempo; ZeroDivisionError when tempo = 0
tempo2bpm(tempo) == Rat(MicrosecondsPerMinute, tempo)

\* a conversion that truncates the tempo instead of rounding it
bpm2tempoTruncating(bpm) == RTrunc(Rat(MicrosecondsPerMinute, bpm))

\* mido.bpm2tempo(bpm) = int(round(60 * 1e6 / bpm)); ZeroDivisionError when bpm = 0
bpm2tempo(bpm) == RRound(Rat(MicrosecondsPerMinute, bpm))

\* MetaMessage("set_tempo", tempo=...) accepts a tempo of 0 .. 0xffffff only
ValidTempo(tempo) == tempo >= 0 /\ tempo <= MaxTempo

IsTempo(msg) == msg.type = "set_tempo"

IsNote(msg) == msg.type \in {"note_on", "note_off"}

TempoMsg(tempo, time) == [type |-> "set_tempo", time |-> time, tempo |-> tempo]

\* a time signature of 3/4
TimeSignatureWaltz == [type |-> "time_signature", time |-> 0, numerator |-> 3, denominator |-> 4]

\* MetaMessage("time_signature", numerator=4, denominator=4, time=0)
TimeSignatureMsg == [type |-> "time_signature", time |-> 0, numerator |-> 4, denominator |-> 4]

NoteMsg(type, time) == [type |-> type, time |-> time, note |-> 60]

(***************************************************************************)
(* Python values: None is the empty tuple, Some(v) the one-element tuple.  *)
(* A call either raises or returns a value.                                *)
(***************************************************************************)
None == <<>>

Some(v) == <<v>>

Raised == [raised |-> TRUE, value |-> 0]

Returned(v) == [raised |-> FALSE, value |-> v]

NoFile == [type |-> 0, ticks_per_beat |-> 0, tracks |-> <<>>, written |-> FALSE]

Indices(s) == 1 .. Len(s)

RECURSIVE StripTempo(_)
\* a copy loop that also loses the message following a set_tempo
StripTempoDropNext(track) ==
    IF track = <<>> THEN <<>>
    ELSE IF IsTempo(Head(track))
         THEN (IF Len(track) > 1 THEN StripTempo(Tail(Tail(track))) ELSE <<>>)
         ELSE <<Head(track)>> \o StripTempo(Tail(track))

\* export.py 200-203, repair.py 119-122: copy a track without its set_tempo messages
StripTempo(track) ==
    IF track = <<>> THEN <<>>
    ELSE IF IsTempo(Head(track)) THEN StripTempo(Tail(track))
         ELSE <<Head(track)>> \o StripTempo(Tail(track))

CountTempo(track) == Cardinality({i \in Indices(track) : IsTempo(track[i])})

CountNotes(track) == Cardinality({i \in Indices(track) : IsNote(track[i])})

RECURSIVE SumSeq(_)
SumSeq(s) == IF s = <<>> THEN 0 ELSE Head(s) + SumSeq(Tail(s))

\* mid.tracks[1:]
OtherTracks(file) == SubSeq(file.tracks, 2, Len(file.tracks))

(***************************************************************************)
(* core/repair.py: detect_original_bpm                                     *)
(***************************************************************************)
\* for msg in mid.tracks[0]: the index of the first set_tempo, 0 when there is none
FirstTempoIndex(track) ==
    IF \E i \in Indices(track) : IsTempo(track[i])
    THEN CHOOSE i \in Indices(track) :
            IsTempo(track[i]) /\ \A j \in 1 .. (i - 1) : ~IsTempo(track[j])
    ELSE 0

\* int(original_bpm), without the + 0.5
RoundedBpmTruncating(tempo) == RTrunc(tempo2bpm(tempo))

\* int(original_bpm + 0.5)
RoundedBpm(tempo) == RTrunc(RAdd(tempo2bpm(tempo), Rat(1, 2)))

detect_original_bpm(file) ==
    IF file.tracks = <<>> THEN None
    ELSE LET track == file.tracks[1]
             i == FirstTempoIndex(track)
         IN  IF i = 0 THEN None
             ELSE IF track[i].tempo = 0 THEN None  \* ZeroDivisionError, swallowed by except
             ELSE Some(RoundedBpm(track[i].tempo))

\* Python truthiness of an Optional[int]
Truthy(opt) == opt # None /\ opt[1] # 0

(***************************************************************************)
(* gui/export.py: _get_original_tempo_map                                  *)
(***************************************************************************)
\* the ticks before message i, without its own delta time
AbsTickBefore(track, i) == SumSeq([j \in 1 .. (i - 1) |-> track[j].time])

\* cumulative_ticks after the first i messages of the track
AbsTick(track, i) == SumSeq([j \in 1 .. i |-> track[j].time])

\* list.sort(key=lambda x: x[0]): stable, ascending by tick
SortByTick(tempo_map) ==
    LET rank(i) == Cardinality({j \in Indices(tempo_map) :
                        \/ tempo_map[j][1] < tempo_map[i][1]
                        \/ tempo_map[j][1] = tempo_map[i][1] /\ j < i}) + 1
    IN  [k \in Indices(tempo_map) |->
            tempo_map[CHOOSE i \in Indices(tempo_map) : rank(i) = k]]

RECURSIVE TempoEntries(_, _)
TempoEntries(track, i) ==
    IF i > Len(track) THEN <<>>
    ELSE IF IsTempo(track[i])
         THEN <<<<AbsTick(track, i), track[i].tempo>>>> \o TempoEntries(track, i + 1)
         ELSE TempoEntries(track, i + 1)

_get_original_tempo_map(file) ==
    IF file.tracks = <<>> THEN <<>>
    ELSE SortByTick(TempoEntries(file.tracks[1], 1))

(***************************************************************************)
(* gui/export.py: _seconds_to_ticks_using_original_tempo                   *)
(***************************************************************************)
\* (ticks_per_beat * mido.tempo2bpm(tempo)) / 60.0, for tempo # 0; the same
\* rational, with the division by 60 taken first to keep the numerators small
TicksPerSecond(ticks_per_beat, tempo) ==
    RMul(RInt(ticks_per_beat), RDiv(tempo2bpm(tempo), RInt(60)))

TicksToThis(tempo_map, i) ==
    IF i = 1 THEN tempo_map[i][1] ELSE tempo_map[i][1] - tempo_map[i - 1][1]

\* the tempo of the entry itself instead of the one before it
PrevTempoOwn(tempo_map, i) == tempo_map[i][2]

\* line 95
PrevTempo(tempo_map, i) ==
    IF i > 1 THEN tempo_map[i - 1][2] ELSE tempo_map[1][2]

RECURSIVE WalkTempoMapNoTicks(_, _, _, _, _, _)
\* the walk without "cumulative_ticks += ticks_to_this"
WalkTempoMapNoTicks(seconds, tempo_map, ticks_per_beat, i, cumulative_time, cumulative_ticks) ==
    IF i > Len(tempo_map)
    THEN LET last_tempo == tempo_map[Len(tempo_map)][2]
         IN  IF last_tempo = 0 THEN Raised
             ELSE Returned(cumulative_ticks
                    + RTrunc(RMul(RSub(seconds, cumulative_time),
                                  TicksPerSecond(ticks_per_beat, last_tempo))))
    ELSE LET ticks_to_this == TicksToThis(tempo_map, i)
             prev_tempo == PrevTempo(tempo_map, i)
         IN  IF prev_tempo = 0 THEN Raised
             ELSE LET ticks_per_second == TicksPerSecond(ticks_per_beat, prev_tempo)
                      segment_seconds ==
                          IF ticks_per_second[1] > 0
                          THEN RDiv(RInt(ticks_to_this), ticks_per_second)
                          ELSE RInt(0)
                  IN  IF RLess(seconds, RAdd(cumulative_time, segment_seconds))
                      THEN Returned(cumulative_ticks
                             + RTrunc(RMul(RSub(seconds, cumulative_time), ticks_per_second)))
                      ELSE WalkTempoMapNoTicks(seconds, tempo_map, ticks_per_beat, i + 1,
                                               RAdd(cumulative_time, segment_seconds),
                                               cumulative_ticks)

RECURSIVE WalkTempoMap(_, _, _, _, _, _)
\* the loop of lines 86-108 from entry i on, then lines 110-114
WalkTempoMap(seconds, tempo_map, ticks_per_beat, i, cumulative_time, cumulative_ticks) ==
    IF i > Len(tempo_map)
    THEN LET last_tempo == tempo_map[Len(tempo_map)][2]
         IN  IF last_tempo = 0 THEN Raised
             ELSE Returned(cumulative_ticks
                    + RTrunc(RMul(RSub(seconds, cumulative_time),
                                  TicksPerSecond(ticks_per_beat, last_tempo))))
    ELSE LET ticks_to_this == TicksToThis(tempo_map, i)
             prev_tempo == PrevTempo(tempo_map, i)
         IN  IF prev_tempo = 0 THEN Raised
             ELSE LET ticks_per_second == TicksPerSecond(ticks_per_beat, prev_tempo)
                      segment_seconds ==
                          IF ticks_per_second[1] > 0
                          THEN RDiv(RInt(ticks_to_this), ticks_per_second)
                          ELSE RInt(0)
                  IN  IF RLess(seconds, RAdd(cumulative_time, segment_seconds))
                      THEN Returned(cumulative_ticks
                             + RTrunc(RMul(RSub(seconds, cumulative_time), ticks_per_second)))
                      ELSE WalkTempoMap(seconds, tempo_map, ticks_per_beat, i + 1,
                                        RAdd(cumulative_time, segment_seconds),
                                        cumulative_ticks + ticks_to_this)

\* a conversion that falls back to 80 BPM when the map is empty
_seconds_to_ticks_default_80(seconds, tempo_map, ticks_per_beat) ==
    IF tempo_map = <<>>
    THEN Returned(RTrunc(RMul(seconds, TicksPerSecond(ticks_per_beat, bpm2tempo(DefaultBpm)))))
    ELSE WalkTempoMap(seconds, tempo_map, ticks_per_beat, 1, RInt(0), 0)

\* lines 60-114; lines 76-80 are the empty map
_seconds_to_ticks_using_original_tempo(seconds, tempo_map, ticks_per_beat) ==
    IF tempo_map = <<>>
    THEN Returned(RTrunc(RMul(seconds, TicksPerSecond(ticks_per_beat, DefaultTempo))))
    ELSE WalkTempoMap(seconds, tempo_map, ticks_per_beat, 1, RInt(0), 0)

(***************************************************************************)
(* core/repair.py: repair_midi                                             *)
(***************************************************************************)
\* lines 88-90: the target BPM
TargetBpm(target_bpm, detected_bpm) ==
    IF target_bpm = None
    THEN (IF Truthy(detected_bpm) THEN detected_bpm[1] ELSE DefaultBpm)
    ELSE target_bpm[1]

\* a new track 0 that keeps a second tempo event
NewTempoTrackTwice(tempo_value) ==
    <<TempoMsg(tempo_value, 0), TimeSignatureMsg, TempoMsg(tempo_value, MaxDelta)>>

\* lines 100-110: the new track 0
NewTempoTrack(tempo_value) == <<TempoMsg(tempo_value, 0), TimeSignatureMsg>>

\* copies of every track of the file, track 0 included
CopiedTracksAll(file) ==
    [k \in Indices(file.tracks) |-> StripTempo(file.tracks[k])]

\* lines 115-124 of repair.py and 196-205 of export.py: the copies of mid.tracks[1:]
CopiedTracks(file) ==
    [k \in Indices(OtherTracks(file)) |-> StripTempo(OtherTracks(file)[k])]

\* lines 127-128
NotesCopied(file) ==
    SumSeq([k \in Indices(OtherTracks(file)) |-> CountNotes(OtherTracks(file)[k])])

\* mido.bpm2tempo raises ZeroDivisionError for 0, MetaMessage raises ValueError
\* for a tempo outside 0 .. 0xffffff
TempoMessageRaises(bpm) == bpm = 0 \/ ~ValidTempo(bpm2tempo(bpm))

\* the input path and an output path in a directory of its own; dirname of the
\* input path is the working directory, which exists
InputFile == "input.mid"

OutputFile == "out/fixed.mid"

\* cli.py lines 91-92: the output path the CLI derives from the input path
FixedFile == "input_fixed.mid"

\* the file system as an operation finds it: the input path is missing, holds
\* something mido cannot parse, or holds the MIDI file mid; the directory of
\* OutputFile exists or not; the destination can be created and written or not
GoodFs == [input |-> "ok", out_dir |-> TRUE, writable |-> TRUE]

\* what a path holds when there is no MIDI file to read there
Unreadable == [type |-> 0, ticks_per_beat |-> 0, tracks |-> <<>>]

\* a message: its fixed text, the str(e) it embeds, the number it embeds
Message(text, cause, number) == [text |-> text, cause |-> cause, number |-> number]

\* lines 61-66
NoDetails ==
    [original_bpm |-> None, target_bpm |-> None, tracks_processed |-> 0, notes_copied |-> 0]

\* lines 144-146 of repair.py, 212-214 of export.py: os.makedirs is called when
\* the output path has a directory part and that directory does not exist
MakedirsCalled(env, output_file) == output_file = OutputFile /\ ~env.out_dir

\* an exception raised after the output directory was made
ThrowAfterMakedirs(cause, details, made_dir, new_mid, called) ==
    [raised |-> TRUE, success |-> FALSE, message |-> Message("", cause, 0),
     details |-> details, new_mid |-> new_mid, made_dir |-> TRUE,
     called |-> called \o <<"makedirs">>]

\* an exception that leaves the try block: the calls made so far, the details
\* filled in so far, the directory and the file made so far
Throw(cause, details, made_dir, new_mid, called) ==
    [raised |-> TRUE, success |-> FALSE, message |-> Message("", cause, 0),
     details |-> details, new_mid |-> new_mid, made_dir |-> made_dir, called |-> called]

\* a handler that lets the exception go on to the caller
Reraise(r, text) == r

\* lines 162-166 of repair.py, 229-233 of export.py: except Exception as e
Catch(r, text) ==
    IF r.raised
    THEN [r EXCEPT !.raised = FALSE, !.success = FALSE,
                   !.message = Message(text, r.message.cause, 0)]
    ELSE r

\* lines 68-160: the try block of repair_midi
RepairTry(file, env, output_file, target_bpm) ==
    LET detected_bpm == detect_original_bpm(file)
        target == TargetBpm(target_bpm, detected_bpm)
        early == [original_bpm |-> detected_bpm, target_bpm |-> Some(target),
                  tracks_processed |-> 0, notes_copied |-> 0]
        details == [early EXCEPT !.tracks_processed = Len(file.tracks),
                                 !.notes_copied = NotesCopied(file)]
        new_mid == [type |-> file.type, ticks_per_beat |-> file.ticks_per_beat,
                    tracks |-> <<NewTempoTrack(bpm2tempo(target))>> \o CopiedTracks(file),
                    written |-> TRUE]
        makedirs == MakedirsCalled(env, output_file)
    IN  IF env.input = "missing"
        THEN [raised |-> FALSE, success |-> FALSE,
              message |-> Message("Input file not found", "", 0),
              details |-> NoDetails, new_mid |-> NoFile, made_dir |-> FALSE,
              called |-> <<"exists">>]
        ELSE IF env.input = "corrupt"
        THEN Throw("not a MIDI file", NoDetails, FALSE, NoFile, <<"exists", "load">>)
        ELSE IF TempoMessageRaises(target)
        THEN Throw("invalid tempo", early, FALSE, NoFile, <<"exists", "load">>)
        ELSE IF makedirs /\ ~env.writable
        THEN Throw("permission denied", details, FALSE, NoFile,
                   <<"exists", "load", "makedirs">>)
        ELSE IF ~env.writable
        THEN Throw("permission denied", details, FALSE, NoFile,
                   <<"exists", "load", "save">>)
        ELSE [raised |-> FALSE, success |-> TRUE,
              message |-> Message("Successfully repaired MIDI file. BPM set to", "", target),
              details |-> details, new_mid |-> new_mid, made_dir |-> makedirs,
              called |-> <<"exists", "load">>
                         \o (IF makedirs THEN <<"makedirs">> ELSE <<>>) \o <<"save">>]

\* the value repair_midi returns, the file and the directory it makes and the
\* calls it makes on the way
repair_midi(file, env, output_file, target_bpm) ==
    Catch(RepairTry(file, env, output_file, target_bpm), "Error repairing MIDI")

(***************************************************************************)
(* gui/export.py: export_segments_to_midi                                  *)
(***************************************************************************)
\* a sort by start that puts equal starts in reverse list order
SortedSectionsUnstable(sections) ==
    LET rank(i) == Cardinality({j \in Indices(sections) :
                        \/ RLess(sections[j].start, sections[i].start)
                        \/ sections[j].start = sections[i].start /\ j > i}) + 1
    IN  [k \in Indices(sections) |->
            sections[CHOOSE i \in Indices(sections) : rank(i) = k]]

\* sorted(sections, key=lambda s: s.start): stable, ascending by start
SortedSections(sections) ==
    LET rank(i) == Cardinality({j \in Indices(sections) :
                        \/ RLess(sections[j].start, sections[i].start)
                        \/ sections[j].start = sections[i].start /\ j < i}) + 1
    IN  [k \in Indices(sections) |->
            sections[CHOOSE i \in Indices(sections) : rank(i) = k]]

RECURSIVE SegmentTempoEventsSkipSame(_, _, _, _, _)
\* a loop that emits no tempo event for a segment at the tick of the previous one
SegmentTempoEventsSkipSame(sorted_sections, i, last_ticks, tempo_map, ticks_per_beat) ==
    IF i > Len(sorted_sections) THEN Returned(<<>>)
    ELSE LET section == sorted_sections[i]
             current == _seconds_to_ticks_using_original_tempo(
                            section.start, tempo_map, ticks_per_beat)
         IN  IF current.raised \/ TempoMessageRaises(section.bpm) THEN Raised
             ELSE LET rest == SegmentTempoEventsSkipSame(sorted_sections, i + 1,
                                                         current.value, tempo_map,
                                                         ticks_per_beat)
                  IN  IF rest.raised THEN Raised
                      ELSE IF i > 1 /\ current.value = last_ticks THEN rest
                      ELSE Returned(<<TempoMsg(bpm2tempo(section.bpm),
                                               current.value - last_ticks)>> \o rest.value)

RECURSIVE SegmentTempoEvents(_, _, _, _, _)
\* lines 165-191 from the i-th sorted section on; raises when a conversion,
\* bpm2tempo or the MetaMessage constructor raises
SegmentTempoEvents(sorted_sections, i, last_ticks, tempo_map, ticks_per_beat) ==
    IF i > Len(sorted_sections) THEN Returned(<<>>)
    ELSE LET section == sorted_sections[i]
             current == _seconds_to_ticks_using_original_tempo(
                            section.start, tempo_map, ticks_per_beat)
         IN  IF current.raised \/ TempoMessageRaises(section.bpm) THEN Raised
             ELSE LET rest == SegmentTempoEvents(sorted_sections, i + 1, current.value,
                                                 tempo_map, ticks_per_beat)
                  IN  IF rest.raised THEN Raised
                      ELSE Returned(<<TempoMsg(bpm2tempo(section.bpm),
                                               current.value - last_ticks)>> \o rest.value)

\* mido's write_track refuses a negative delta time
SaveRaises(tracks) ==
    \E k \in Indices(tracks) : \E i \in Indices(tracks[k]) : tracks[k][i].time < 0

\* a list the callee had sorted in place with list.sort
ListAfterSortInPlace(sections) == SortedSections(sections)

\* line 154: sorted() builds a new list and leaves the one it is given, and the
\* Section objects in it, as they are; no other line assigns to either
ListAfterSorted(sections) == sections

\* mido's save writes the header chunk, then track by track; a track with a
\* negative delta raises before any of its bytes are written
HeaderOnly(file) ==
    [type |-> file.type, ticks_per_beat |-> file.ticks_per_beat, tracks |-> <<>>,
     written |-> TRUE]

\* a success message that counts the sorted sections that differ
ExportedMessageDistinct(sections) ==
    Message("export done, sections", "", Cardinality({sections[i] : i \in Indices(sections)}))

\* line 227: the message of a successful export (its text is rendered in
\* English here), with len(sections)
ExportedMessage(sections) == Message("export done, sections", "", Len(sections))

\* lines 135-227: the try block of export_segments_to_midi
ExportTry(file, env, output_file, sections) ==
    LET original_tempo_map == _get_original_tempo_map(file)
        events == SegmentTempoEvents(SortedSections(sections), 1, 0,
                                     original_tempo_map, file.ticks_per_beat)
        new_tracks == <<<<TimeSignatureMsg>> \o events.value>> \o CopiedTracks(file)
        makedirs == MakedirsCalled(env, output_file)
        to_save == <<"load">> \o (IF makedirs THEN <<"makedirs">> ELSE <<>>) \o <<"save">>
    IN  IF env.input = "missing"
        THEN Throw("no such file", None, FALSE, NoFile, <<"load">>)
        ELSE IF env.input = "corrupt"
        THEN Throw("not a MIDI file", None, FALSE, NoFile, <<"load">>)
        ELSE IF events.raised
        THEN Throw("invalid tempo", None, FALSE, NoFile, <<"load">>)
        ELSE IF makedirs /\ ~env.writable
        THEN Throw("permission denied", None, FALSE, NoFile, <<"load", "makedirs">>)
        ELSE IF ~env.writable
        THEN Throw("permission denied", None, FALSE, NoFile, <<"load", "save">>)
        ELSE IF SaveRaises(new_tracks)
        THEN Throw("negative delta time", None, makedirs, HeaderOnly(file), to_save)
        ELSE [raised |-> FALSE, success |-> TRUE, message |-> ExportedMessage(sections),
              details |-> None,
              new_mid |-> [type |-> file.type, ticks_per_beat |-> file.ticks_per_beat,
                           tracks |-> new_tracks, written |-> TRUE],
              made_dir |-> makedirs, called |-> to_save]

\* the value export_segments_to_midi returns, the file and the directory it
\* makes, the calls it makes on the way and the list of the caller after the call
export_segments_to_midi(file, env, output_file, sections) ==
    \* line 230: the text of the failure message is rendered in English here
    [outcome |-> Catch(ExportTry(file, env, output_file, sections), "export failed"),
     sections |-> ListAfterSorted(sections)]

(***************************************************************************)
(* core/analyzer.py: analyze_midi. An issue is modelled by the words it    *)
(* starts with.                                                            *)
(***************************************************************************)
\* lines 103-108: the bpm_values of a track, one per set_tempo
BpmValues(track) == {tempo2bpm(track[i].tempo) : i \in {j \in Indices(track) : IsTempo(track[j])}}

\* lines 123-124: the messages of type "empty" of a track
EmptyCount(track) == Cardinality({i \in Indices(track) : track[i].type = "empty"})

\* lines 138-139: the indices of the tracks with a set_tempo, the first track 0
TempoTracks(file) == {k - 1 : k \in {j \in Indices(file.tracks) : CountTempo(file.tracks[j]) > 0}}

\* mido.tempo2bpm at line 106 divides by the tempo
HasZeroTempo(file) ==
    \E k \in Indices(file.tracks) : \E i \in Indices(file.tracks[k]) :
        IsTempo(file.tracks[k][i]) /\ file.tracks[k][i].tempo = 0

\* lines 187-190
NoTempoIssue(file) == IF TempoTracks(file) = {} THEN <<"NO TEMPO">> ELSE <<>>

RECURSIVE SparseIssues(_, _)
\* lines 196-201: one issue per track from track k on with more than half of its
\* events empty
SparseIssues(file, k) ==
    IF k > Len(file.tracks) THEN <<>>
    ELSE (IF 2 * EmptyCount(file.tracks[k]) > Len(file.tracks[k]) THEN <<"TRACK">> ELSE <<>>)
         \o SparseIssues(file, k + 1)

\* a check that reports 10 distinct BPM values already
TempoRampIssueFromTen(file) ==
    IF Cardinality(UNION {BpmValues(file.tracks[k]) : k \in Indices(file.tracks)}) >= 10
    THEN <<"TEMPO RAMP">> ELSE <<>>

\* lines 204-212: more than 10 distinct BPM values over all tracks
TempoRampIssue(file) ==
    IF Cardinality(UNION {BpmValues(file.tracks[k]) : k \in Indices(file.tracks)}) > 10
    THEN <<"TEMPO RAMP">> ELSE <<>>

\* a validity that looks at the tempo alone
IsValidTempoOnly(has_tempo, issues) == has_tempo

\* line 214
IsValid(has_tempo, issues) == has_tempo /\ issues = <<>>

\* lines 30-41: the result before anything is known; raised is no key of the
\* dictionary, it tells whether the call ended in an exception
EmptyResult ==
    [raised |-> FALSE, file_exists |-> FALSE, track_count |-> None, issues |-> <<>>,
     has_tempo |-> FALSE, original_bpm |-> None, is_valid |-> FALSE]

\* lines 52-229: the try block of analyze_midi; an exception leaves it with the
\* result as filled in so far
AnalyzeTry(file, env) ==
    IF env.input = "corrupt"
    THEN [EmptyResult EXCEPT !.raised = TRUE, !.file_exists = TRUE]
    ELSE IF HasZeroTempo(file)
    THEN [EmptyResult EXCEPT !.raised = TRUE, !.file_exists = TRUE,
                             !.track_count = Some(Len(file.tracks))]
    ELSE LET issues == NoTempoIssue(file) \o SparseIssues(file, 1) \o TempoRampIssue(file)
             has_tempo == TempoTracks(file) # {}
             first == IF file.tracks = <<>> THEN 0 ELSE FirstTempoIndex(file.tracks[1])
         IN  [raised |-> FALSE, file_exists |-> TRUE,
              track_count |-> Some(Len(file.tracks)),
              issues |-> issues, has_tempo |-> has_tempo,
              original_bpm |-> IF first = 0 THEN None
                               ELSE Some(tempo2bpm(file.tracks[1][first].tempo)),
              is_valid |-> IsValid(has_tempo, issues)]

\* a handler that lets the exception go on to the caller
ReraiseAnalyze(result) == result

\* lines 231-236: except Exception as e appends the error to the issues
CatchAnalyze(result) ==
    IF result.raised
    THEN [result EXCEPT !.raised = FALSE, !.issues = @ \o <<"Error analyzing MIDI">>]
    ELSE result

\* the dictionary analyze_midi returns (the fields the diagnosis is made of)
analyze_midi(file, env) ==
    IF env.input = "missing"
    THEN [EmptyResult EXCEPT !.issues = <<"File not found">>]
    ELSE CatchAnalyze(AnalyzeTry(file, env))

(***************************************************************************)
(* cli.py: main. The arguments are the parsed command line with an input   *)
(* path: analyze_only, output (None without --output) and bpm.             *)
(***************************************************************************)
\* an exit code that ignores the outcome of the repair
ExitCodeZero(success) == 0

\* lines 109-129: the exit code after repair_midi
ExitCode(success) == IF success THEN 0 ELSE 1

\* lines 87-92
OutputPath(args) == IF args.output = None THEN FixedFile ELSE args.output[1]

\* lines 66-129: the exit code, the functions main calls in their order, and the
\* outcome of repair_midi when it is called (an outcome that writes nothing
\* when it is not)
main(file, env, args) ==
    LET idle == [raised |-> FALSE, success |-> FALSE, message |-> Message("", "", 0),
                 details |-> NoDetails, new_mid |-> NoFile, made_dir |-> FALSE,
                 called |-> <<>>]
        repair == repair_midi(file, env, OutputPath(args), args.bpm)
    IN  IF env.input = "missing"
        THEN [exit_code |-> 1, called |-> <<"exists">>, repair |-> idle]
        ELSE IF args.analyze_only
        THEN [exit_code |-> 0, called |-> <<"exists", "analyze_midi">>, repair |-> idle]
        ELSE [exit_code |-> ExitCode(repair.success),
              called |-> <<"exists", "analyze_midi", "repair_midi">>
                         \o (IF repair.success THEN <<"verify_midi">> ELSE <<>>),
              repair |-> repair]

(***************************************************************************)
(* Inputs: the files on disk, the target BPMs, the segment lists and the   *)
(* times the callers pass.                                                 *)
(***************************************************************************)
SeqsUpTo(S, n) == UNION {[1 .. k -> S] : k \in 0 .. n}

\* messages of a track 0: two tempos (90 and 120 BPM) and a note
Track0Msgs ==
    {TempoMsg(666667, 0), TempoMsg(DefaultTempo, MaxDelta), NoteMsg("note_on", MaxDelta)}

\* messages of the tracks after track 0
OtherMsgs ==
    {TempoMsg(DefaultTempo, MaxDelta), NoteMsg("note_on", 0), NoteMsg("note_off", MaxDelta)}

\* messages of a tempo track: 120 BPM, 60 BPM and the invalid tempo 0
TempoTrackMsgs ==
    {TempoMsg(DefaultTempo, 0), TempoMsg(1000000, MaxDelta), TempoMsg(0, MaxDelta)}

File(type, ticks_per_beat, tracks) ==
    [type |-> type, ticks_per_beat |-> ticks_per_beat, tracks |-> tracks]

\* the scenario of the tempo ramp 90, 95, 100, 105, 110 BPM interleaved with notes
RampFile ==
    File(1, 480,
         <<<<TimeSignatureMsg, TempoMsg(bpm2tempo(90), 0), NoteMsg("note_on", 0),
             TempoMsg(bpm2tempo(95), MaxDelta), NoteMsg("note_off", 0),
             TempoMsg(bpm2tempo(100), MaxDelta), NoteMsg("note_on", 0),
             TempoMsg(bpm2tempo(105), MaxDelta), NoteMsg("note_off", 0),
             TempoMsg(bpm2tempo(110), MaxDelta)>>,
           <<TimeSignatureMsg, NoteMsg("note_on", 0), NoteMsg("note_off", MaxDelta)>>>>)

\* a file whose first tempo event carries the tempo 0
ZeroTempoFile ==
    File(1, 480, <<<<TempoMsg(0, 0), TempoMsg(DefaultTempo, MaxDelta)>>,
                   <<NoteMsg("note_on", 0)>>>>)

\* files with up to MaxTracks tracks of up to MaxTrackLen messages
Files ==
    {File(0, 480, <<>>), RampFile, ZeroTempoFile}
    \cup {File(IF rest = <<>> THEN type ELSE 1, 480, <<t0>> \o rest) :
            type \in {0, 1},
            t0 \in SeqsUpTo(Track0Msgs, MaxTrackLen),
            rest \in SeqsUpTo(SeqsUpTo(OtherMsgs, MaxTrackLen), MaxTracks - 1)}

\* files that are a tempo track alone, or nothing
TempoFiles ==
    {File(1, P, tracks) :
        P \in {2, 480},
        tracks \in {<<>>} \cup {<<t0>> : t0 \in SeqsUpTo(TempoTrackMsgs, MaxTrackLen)}}

\* a file whose only tempo event is in its second track
LateTempoFile ==
    File(1, 480, <<<<NoteMsg("note_on", 0)>>, <<TempoMsg(DefaultTempo, 0), NoteMsg("note_off", MaxDelta)>>>>)

\* a file of two tracks of notes, without any tempo event
NoTempoFile ==
    File(1, 480, <<<<NoteMsg("note_on", 0)>>, <<NoteMsg("note_on", 0), NoteMsg("note_off", MaxDelta)>>>>)

\* a file with the eleven tempos of 90 to 100 BPM at tick 0
LongRampFile ==
    File(1, 480, <<[i \in 1 .. 11 |-> TempoMsg(bpm2tempo(89 + i), 0)],
                   <<NoteMsg("note_on", 0), NoteMsg("note_off", MaxDelta)>>>>)

\* n tempo events at tick 0, of the BPMs from, from + 1, ...
RampTrack(from, n) == [i \in 1 .. n |-> TempoMsg(bpm2tempo(from + i - 1), 0)]

\* files of two tracks with up to MaxRamp tempo events each, of the same BPMs or
\* of other BPMs in the second track, with or without a last event of tempo 0
RampFiles ==
    {File(1, 480, <<RampTrack(90, n0),
                    RampTrack(90 + from, n1) \o zero \o <<NoteMsg("note_on", 0)>>>>) :
        n0 \in 0 .. MaxRamp, n1 \in 0 .. MaxRamp, from \in {0, MaxRamp},
        zero \in {<<>>, <<TempoMsg(0, 0)>>}}

\* the files read when the file system varies
\* the file of the window: one note, MaxDuration steps long at the default tempo
GuiFile == File(1, 480, <<<<NoteMsg("note_on", 48 * MaxDuration)>>>>)

IOFiles ==
    {File(0, 480, <<>>), RampFile, ZeroTempoFile, LateTempoFile, NoTempoFile, LongRampFile}

\* the command lines with an input path
CliArgs ==
    [analyze_only : BOOLEAN, output : {None, Some(InputFile), Some(OutputFile)},
     bpm : {None, Some(0), Some(120)}]

TargetBpms == {None, Some(0), Some(3), Some(4), Some(120)}

Section(start, bpm) ==
    [start |-> start, end |-> RAdd(start, RInt(10)), bpm |-> bpm,
     note_count |-> 0, description |-> ""]

Sections ==
    {Section(start, bpm) : start \in {RInt(0), Rat(1, 4), RInt(10)},
                           bpm \in {3, 100, 512}}

\* the scenario of three segments at 0, 10 and 20 seconds
ScenarioSections == <<Section(RInt(0), 100), Section(RInt(10), 140), Section(RInt(20), 80)>>

SectionLists == SeqsUpTo(Sections, MaxSections) \cup {ScenarioSections}

FewSectionLists == {<<>>, <<Section(RInt(0), 120)>>, <<Section(RInt(1), 3)>>}

QueryTimes ==
    {RInt(0), Rat(1, 4), Rat(1, 2), Rat(2, 3), RInt(1), Rat(3, 2), RInt(2), RInt(10),
     RInt(20)}

\* the ticks whose playback time is asked for
RenderTicks == {0, 1, MaxDelta - 1, MaxDelta, MaxDelta + 1, 2 * MaxDelta, 2 * MaxDelta + 1}

Min(a, b) == IF a < b THEN a ELSE b

\* Standard MIDI playback: the seconds at which a player reaches tick k. Ticks
\* before the first tempo event run at the default 500000 us per beat, ticks from
\* an event on at its tempo (of several events at one tick the last one counts).
RenderTime(k, tempo_map, ticks_per_beat) ==
    LET n == Len(tempo_map)
        from(i) == IF i = 0 THEN 0 ELSE tempo_map[i][1]
        to(i) == IF i = n THEN (IF from(i) > k THEN from(i) ELSE k) ELSE tempo_map[i + 1][1]
        tempo(i) == IF i = 0 THEN DefaultTempo ELSE tempo_map[i][2]
        micros == SumSeq([j \in 1 .. (n + 1) |->
                     tempo(j - 1) * (Min(to(j - 1), k) - Min(from(j - 1), k))])
    IN  Rat(micros, ticks_per_beat * 1000000)

(***************************************************************************)
(* gui/visualization.py: BPMVisualizationCanvas.  Times are counted in     *)
(* steps of 0.05 s; pointer positions are the pixels whose time lies on a  *)
(* step.  For the durations used here 8 pixels are less than one step, so  *)
(* a pointer is within 8 pixels of a boundary exactly when its time is the *)
(* time of the boundary. A section is named by its Python list index.      *)
(***************************************************************************)
\* the value of a Section: models.py, dataclass Section
CanvasSection(start, end, bpm, description) ==
    [start |-> start, end |-> end, bpm |-> bpm, note_count |-> 0,
     description |-> description]

\* lines 25-71: the canvas after construction
NewCanvas ==
    [sections |-> <<>>, total_duration |-> 0, undo_stack |-> <<>>, redo_stack |-> <<>>,
     dragging |-> FALSE, selected_segment |-> None, drag_action |-> None]

\* the result of a canvas method: the canvas after it and whether it has called
\* on_segments_changed
Done(self, notified) == [self |-> self, notified |-> notified]

\* the Python list index of the first section whose test is true, None if none
FirstIndex(tests) ==
    IF \E i \in Indices(tests) : tests[i]
    THEN Some((CHOOSE i \in Indices(tests) :
                   tests[i] /\ \A j \in 1 .. (i - 1) : ~tests[j]) - 1)
    ELSE None

\* section.start <= time <= section.end, for each section
Holds(sections, time) ==
    [i \in Indices(sections) |-> sections[i].start <= time /\ time <= sections[i].end]

\* list.insert(index, section)
Insert(sections, index, section) ==
    SubSeq(sections, 1, index) \o <<section>> \o SubSeq(sections, index + 1, Len(sections))

\* list.pop(index)
Pop(sections, index) ==
    SubSeq(sections, 1, index) \o SubSeq(sections, index + 2, Len(sections))

\* lines 80-98
set_midi_data(self, length) == [self EXCEPT !.total_duration = length]

\* lines 100-114
set_sections(self, sections) ==
    LET save == self.sections # <<>> /\ self.sections # sections
    IN  [self EXCEPT !.undo_stack = IF save THEN Append(@, self.sections) ELSE @,
                     !.redo_stack = IF save THEN <<>> ELSE @,
                     !.sections = sections]

\* lines 429-462
_on_mouse_down(self, time) ==
    LET sections == self.sections
        at_start == FirstIndex([i \in Indices(sections) |-> sections[i].start = time])
        at_end == FirstIndex([i \in Indices(sections) |-> sections[i].end = time])
        pressed == [self EXCEPT !.dragging = TRUE, !.drag_action = None]
    IN  IF at_start # None
        THEN [pressed EXCEPT !.selected_segment = at_start, !.drag_action = Some("start")]
        ELSE IF at_end # None
        THEN [pressed EXCEPT !.selected_segment = at_end, !.drag_action = Some("end")]
        ELSE [pressed EXCEPT !.selected_segment = FirstIndex(Holds(sections, time))]

\* max(min_t, min(new_time, max_t)), lines 482 and 497
Clamp(min_t, new_time, max_t) ==
    LET low == IF new_time < max_t THEN new_time ELSE max_t
    IN  IF min_t > low THEN min_t ELSE low

\* lines 476-488: the start of the selected section is dragged
DragStart(self, idx, time) ==
    LET sections == self.sections
        selected == sections[idx + 1]
        min_t == IF idx > 0 THEN sections[idx].start + Tenth ELSE 0
        new_time == Clamp(min_t, time, selected.end - Tenth)
        linked == idx > 0 /\ sections[idx].end = selected.start
    IN  [self EXCEPT !.sections =
            [i \in Indices(sections) |->
                IF i = idx + 1 THEN [sections[i] EXCEPT !.start = new_time]
                ELSE IF i = idx /\ linked THEN [sections[i] EXCEPT !.end = new_time]
                ELSE sections[i]]]

\* lines 490-506: the end of the selected section is dragged
DragEnd(self, idx, time) ==
    LET sections == self.sections
        selected == sections[idx + 1]
        last == idx = Len(sections) - 1
        max_t == IF last THEN self.total_duration ELSE sections[idx + 2].end - Tenth
        new_time == Clamp(selected.start + Tenth, time, max_t)
        linked == ~last /\ sections[idx + 2].start = selected.end
    IN  [self EXCEPT !.sections =
            [i \in Indices(sections) |->
                IF i = idx + 1 THEN [sections[i] EXCEPT !.end = new_time]
                ELSE IF i = idx + 2 /\ linked THEN [sections[i] EXCEPT !.start = new_time]
                ELSE sections[i]]]

\* lines 464-508
_on_mouse_drag(self, time) ==
    IF ~self.dragging \/ self.selected_segment = None \/ self.drag_action = None
    THEN self
    ELSE IF self.drag_action = Some("start")
    THEN DragStart(self, self.selected_segment[1], time)
    ELSE DragEnd(self, self.selected_segment[1], time)

\* lines 510-516
_on_mouse_up(self) ==
    IF self.dragging THEN Done([self EXCEPT !.dragging = FALSE], TRUE)
    ELSE Done(self, FALSE)

\* lines 573-590
_delete_boundary(self, index) ==
    IF ~(0 < index /\ index < Len(self.sections)) THEN Done(self, FALSE)
    ELSE LET sections == self.sections
             merged == [sections EXCEPT ![index].end = sections[index + 1].end]
         IN  Done([self EXCEPT !.undo_stack = Append(@, sections),
                               !.redo_stack = <<>>,
                               !.sections = Pop(merged, index)], TRUE)

\* line 606: section.description + " (分割)"
SplitDescription(section) == Append(section.description, "split")

\* line 630: description="用户添加"
UserDescription(section) == <<"user">>

\* lines 600-610 and 622-633: the first section that holds split_time is cut
\* there, by _add_boundary (by_user) or by _split_segment
SplitAt(sections, split_time, by_user) ==
    LET found == FirstIndex(Holds(sections, split_time))
    IN  IF found = None THEN sections
        ELSE LET i == found[1] + 1
                 section == sections[i]
                 description == IF by_user THEN UserDescription(section)
                                ELSE SplitDescription(section)
                 new_section == CanvasSection(split_time, section.end, section.bpm,
                                              description)
             IN  Insert([sections EXCEPT ![i].end = split_time], i, new_section)

\* lines 592-614
_split_segment(self, split_time) ==
    IF ~(0 < split_time /\ split_time < self.total_duration) THEN Done(self, FALSE)
    ELSE Done([self EXCEPT !.undo_stack = Append(@, self.sections),
                           !.redo_stack = <<>>,
                           !.sections = SplitAt(@, split_time, FALSE)], TRUE)

\* lines 616-641: the snapshot for undo is taken after the section was cut
_add_boundary(self, time) ==
    LET sections == self.sections
        found == FirstIndex(Holds(sections, time))
    IN  IF ~(0 < time /\ time < self.total_duration) \/ found = None THEN Done(self, FALSE)
        ELSE LET section == sections[found[1] + 1]
             IN  IF Abs(time - section.start) > Tenth /\ Abs(time - section.end) > Tenth
                 THEN LET after == SplitAt(sections, time, TRUE)
                      IN  Done([self EXCEPT !.sections = after,
                                            !.undo_stack = Append(@, after),
                                            !.redo_stack = <<>>], TRUE)
                 ELSE Done(self, FALSE)

\* undo that forgets the list it leaves
UndoWithoutRedo(self) ==
    IF self.undo_stack = <<>> THEN Done(self, FALSE)
    ELSE Done([self EXCEPT !.sections = self.undo_stack[Len(self.undo_stack)],
                           !.undo_stack = SubSeq(@, 1, Len(@) - 1)], TRUE)

\* lines 643-650
undo(self) ==
    IF self.undo_stack = <<>> THEN Done(self, FALSE)
    ELSE Done([self EXCEPT !.redo_stack = Append(@, self.sections),
                           !.sections = self.undo_stack[Len(self.undo_stack)],
                           !.undo_stack = SubSeq(@, 1, Len(@) - 1)], TRUE)

\* lines 652-659
redo(self) ==
    IF self.redo_stack = <<>> THEN Done(self, FALSE)
    ELSE Done([self EXCEPT !.undo_stack = Append(@, self.sections),
                           !.sections = self.redo_stack[Len(self.redo_stack)],
                           !.redo_stack = SubSeq(@, 1, Len(@) - 1)], TRUE)

\* lines 532-543: the Python list index of the boundary whose deletion the
\* context menu offers, None if it offers none
BoundaryClicked(self, click_time) ==
    LET offered == {i \in 1 .. (Len(self.sections) - 2) :
                       self.sections[i + 1].start = click_time}
    IN  IF offered = {} THEN None
        ELSE Some(CHOOSE i \in offered : \A j \in offered : i <= j)

\* lines 522-527: whether the click lies on a segment
ClickedSection(self, click_time) ==
    \E i \in Indices(self.sections) :
        self.sections[i].start <= click_time /\ click_time <= self.sections[i].end

(***************************************************************************)
(* app.py: MidiRepairGUI.  self.sections is the list object the canvas     *)
(* holds (set_sections stores it, every callback hands the canvas's list   *)
(* back), so the sections of the application are canvas.sections.          *)
(***************************************************************************)
\* lines 34-56 with create_visualization_section (172-185) and
\* create_quick_repair_section (207-213)
NewApp ==
    [input_file |-> None, output_file |-> None, midi_data |-> FALSE,
     segment_mode_enabled |-> FALSE, export_btn |-> "disabled", fix_btn |-> "normal"]

\* lines 323-325, and 182-184
ExportEnabled(self, sections, output_exists) ==
    sections # <<>> \/ (self.output_file # None /\ output_exists)

\* lines 310-326
_on_segments_changed(self, sections, output_exists) ==
    [self EXCEPT !.export_btn =
        IF ExportEnabled(self, sections, output_exists) THEN "normal" ELSE "disabled"]

\* lines 286-295
_update_button_states(self) ==
    [self EXCEPT !.fix_btn =
        IF self.segment_mode_enabled THEN "disabled"
        ELSE IF self.input_file # None THEN "normal" ELSE "disabled"]

\* mido's MidiFile.length of a file without tempo events, in steps of 0.05 s:
\* the ticks of its longest track at the default tempo
Length(file) ==
    LET ticks(i) == SumSeq([j \in Indices(file.tracks[i]) |-> file.tracks[i][j].time])
        longest == CHOOSE t \in {ticks(i) : i \in Indices(file.tracks)} :
                       \A i \in Indices(file.tracks) : ticks(i) <= t
    IN  (longest * (DefaultTempo \div 1000) * StepsPerSecond)
            \div (file.ticks_per_beat * 1000)

(***************************************************************************)
(* The state machine: a file on disk, then one call of an operation.       *)
(***************************************************************************)
NoCall ==
    /\ op = "none" /\ arg = <<>> /\ ret = <<>> /\ out = NoFile /\ calls = <<>>
    /\ canvas = NewCanvas /\ app = NewApp

Init == mid \in Files /\ fs = GoodFs /\ NoCall

InitExport == mid \in TempoFiles /\ fs = GoodFs /\ NoCall

InitCodec == mid = File(0, 480, <<>>) /\ fs = GoodFs /\ NoCall

\* every state of the file system, with a readable input or not
InitIO ==
    /\ fs \in [input : {"ok", "missing", "corrupt"}, out_dir : BOOLEAN, writable : BOOLEAN]
    /\ mid \in (IF fs.input = "ok" THEN IOFiles ELSE {Unreadable})
    /\ NoCall

\* what a call leaves on disk: a directory made stays, and a file written to the
\* input path replaces the input
DiskAfter(output_file, outcome) ==
    /\ fs' = [fs EXCEPT !.out_dir = @ \/ outcome.made_dir]
    /\ out' = outcome.new_mid
    /\ mid' = IF output_file = InputFile /\ outcome.new_mid.written
              THEN File(outcome.new_mid.type, outcome.new_mid.ticks_per_beat,
                        outcome.new_mid.tracks)
              ELSE mid

RepairMidi(output_file, target_bpm) ==
    /\ op = "none"
    /\ op' = "repair"
    /\ arg' = [output_file |-> output_file, target_bpm |-> target_bpm]
    /\ \E r \in {repair_midi(mid, fs, output_file, target_bpm)} :
           /\ ret' = [raised |-> r.raised, success |-> r.success, message |-> r.message,
                      details |-> r.details]
           /\ calls' = r.called
           /\ DiskAfter(output_file, r)
    /\ UNCHANGED <<canvas, app>>

\* the caller repairs the file a repair has written, with the BPM of that repair:
\* the first output is the input of the second call
RepairOutput ==
    /\ op = "repair" /\ ret.success /\ arg.output_file = OutputFile
    /\ op' = "repair_again"
    /\ arg' = [output_file |-> OutputFile, target_bpm |-> ret.details.target_bpm]
    /\ mid' = File(out.type, out.ticks_per_beat, out.tracks)
    /\ \E r \in {repair_midi(mid', fs, OutputFile, ret.details.target_bpm)} :
           /\ ret' = [raised |-> r.raised, success |-> r.success, message |-> r.message,
                      details |-> r.details]
           /\ calls' = r.called
           /\ out' = r.new_mid
           /\ fs' = [fs EXCEPT !.out_dir = @ \/ r.made_dir]
    /\ UNCHANGED <<canvas, app>>

ExportSegments(output_file, sections) ==
    /\ op = "none"
    /\ op' = "export"
    /\ \E r \in {export_segments_to_midi(mid, fs, output_file, sections)} :
           /\ arg' = [output_file |-> output_file, sections |-> sections,
                      sections_after |-> r.sections]
           /\ ret' = [raised |-> r.outcome.raised, success |-> r.outcome.success,
                      message |-> r.outcome.message]
           /\ calls' = r.outcome.called
           /\ DiskAfter(output_file, r.outcome)
    /\ UNCHANGED <<canvas, app>>

\* a caller converts a time against the tempo map of the loaded file
SecondsToTicks(seconds) ==
    /\ op \in {"none", "convert"}
    /\ op' = "convert"
    /\ arg' = [seconds |-> seconds]
    /\ ret' = _seconds_to_ticks_using_original_tempo(
                  seconds, _get_original_tempo_map(mid), mid.ticks_per_beat)
    /\ UNCHANGED <<mid, fs, out, calls, canvas, app>>

\* the tempo repair_midi writes for a BPM (lines 102-105), read back as
\* detect_original_bpm reads it (lines 31-34)
TempoRoundTrip(bpm) ==
    /\ op = "none"
    /\ op' = "codec"
    /\ arg' = [bpm |-> bpm]
    /\ ret' = [tempo |-> bpm2tempo(bpm), bpm |-> RoundedBpm(bpm2tempo(bpm))]
    /\ UNCHANGED <<mid, fs, out, calls, canvas, app>>

\* the tempo map of the loaded file is taken
GetTempoMap ==
    /\ op = "none"
    /\ op' = "tempo_map"
    /\ arg' = <<>>
    /\ ret' = _get_original_tempo_map(mid)
    /\ UNCHANGED <<mid, fs, out, calls, canvas, app>>

AnalyzeMidi ==
    /\ op = "none"
    /\ op' = "analyze"
    /\ arg' = [filepath |-> InputFile]
    /\ ret' = analyze_midi(mid, fs)
    /\ calls' = <<"exists">> \o (IF fs.input = "missing" THEN <<>> ELSE <<"load">>)
    /\ UNCHANGED <<mid, fs, out, canvas, app>>

\* the command line tool is run on the input path
CliMain(args) ==
    /\ op = "none"
    /\ op' = "cli"
    /\ arg' = args
    /\ \E r \in {main(mid, fs, args)} :
           /\ ret' = [exit_code |-> r.exit_code, repaired |-> r.repair.success]
           /\ calls' = r.called
           /\ DiskAfter(OutputPath(args), r.repair)
    /\ UNCHANGED <<canvas, app>>

Next ==
    \/ \E target_bpm \in TargetBpms : RepairMidi(OutputFile, target_bpm)
    \/ RepairOutput
    \/ \E sections \in FewSectionLists : ExportSegments(OutputFile, sections)
    \/ GetTempoMap

Spec == Init /\ [][Next]_vars

NextConvert ==
    \E seconds \in QueryTimes \cup {RenderTime(k, _get_original_tempo_map(mid),
                                               mid.ticks_per_beat) : k \in RenderTicks} :
        SecondsToTicks(seconds)

SpecConvert == InitExport /\ [][NextConvert]_vars

NextExport == \E sections \in SectionLists : ExportSegments(OutputFile, sections)

SpecExport == InitExport /\ [][NextExport]_vars

NextCodec == \E bpm \in 1 .. MaxBpm : TempoRoundTrip(bpm)

SpecCodec == InitCodec /\ [][NextCodec]_vars

NextIO ==
    \/ \E output_file \in {InputFile, OutputFile}, target_bpm \in TargetBpms :
            RepairMidi(output_file, target_bpm)
    \/ \E output_file \in {InputFile, OutputFile}, sections \in FewSectionLists :
            ExportSegments(output_file, sections)
    \/ AnalyzeMidi
    \/ \E args \in CliArgs : CliMain(args)

SpecIO == InitIO /\ [][NextIO]_vars

\* a file of tempo events, or a path without a file to read
InitAnalyze ==
    /\ \/ fs = GoodFs /\ mid \in RampFiles
       \/ /\ fs \in [input : {"missing", "corrupt"}, out_dir : BOOLEAN, writable : BOOLEAN]
          /\ mid = Unreadable
    /\ NoCall

SpecAnalyze == InitAnalyze /\ [][AnalyzeMidi]_vars

(***************************************************************************)
(* The window: the user imports the file, edits the segments on the canvas *)
(* and repairs with one click.                                             *)
(***************************************************************************)
\* the pointer positions the user clicks at: 0.1 s, 0.15 s and the right edge
\* of the canvas
PointerTimes == {time \in {Tenth, Tenth + 1, MaxDuration} : time <= canvas.total_duration}

\* the pointer position a drag ends at: the left edge of the canvas
DragTimes == {0}

InitGui ==
    /\ fs \in {GoodFs, [GoodFs EXCEPT !.input = "corrupt"]}
    /\ mid = (IF fs.input = "ok" THEN GuiFile ELSE Unreadable)
    /\ NoCall

\* the file named by os.path.exists(self.output_file) is the one fix_midi wrote
OutputExists == out.written

\* the list and the two stacks of the canvas
Stacks(self) ==
    [sections |-> self.sections, undo_stack |-> self.undo_stack,
     redo_stack |-> self.redo_stack]

\* a canvas method has run: r is its result, and on_segments_changed has run if
\* the method called it; before is what the caller remembers of the canvas
CanvasCall(name, input, before, r) ==
    /\ Len(r.self.undo_stack) <= MaxUndo
    /\ Len(r.self.sections) <= MaxSegments
    /\ op' = name
    /\ arg' = [input |-> input, before |-> before]
    /\ canvas' = r.self
    /\ app' = IF r.notified THEN _on_segments_changed(app, r.self.sections, OutputExists)
              ELSE app
    /\ UNCHANGED <<mid, fs, ret, out, calls>>

\* app.py lines 256-284: the file dialog returns the input path
ImportMidi ==
    LET loaded == fs.input = "ok"
        shown == IF loaded THEN set_midi_data(canvas, Length(mid)) ELSE canvas
        sections == <<CanvasSection(0, Length(mid), 120, <<>>)>>
    IN  /\ ~canvas.dragging
        /\ \E r \in {IF app.midi_data \/ loaded THEN set_sections(shown, sections)
                     ELSE shown} :
               /\ Len(r.undo_stack) <= MaxUndo
               /\ canvas' = r
        /\ app' = _update_button_states(
                      [app EXCEPT !.input_file = Some(InputFile),
                                  !.midi_data = @ \/ loaded])
        /\ op' = "import"
        /\ arg' = [input |-> InputFile, before |-> None]
        /\ UNCHANGED <<mid, fs, ret, out, calls>>

MouseDown(time) ==
    /\ ~canvas.dragging
    /\ CanvasCall("mouse_down", time, None, Done(_on_mouse_down(canvas, time), FALSE))

MouseDrag(time) ==
    /\ canvas.dragging
    /\ CanvasCall("mouse_drag", time, None, Done(_on_mouse_drag(canvas, time), FALSE))

MouseUp ==
    /\ canvas.dragging
    /\ CanvasCall("mouse_up", None, None, _on_mouse_up(canvas))

DeleteBoundary(index) ==
    /\ ~canvas.dragging
    /\ CanvasCall("delete_boundary", index, Some(canvas.sections), _delete_boundary(canvas, index))

SplitSegment(split_time) ==
    /\ ~canvas.dragging
    /\ CanvasCall("split", split_time, Some(canvas.sections), _split_segment(canvas, split_time))

AddBoundary(time) ==
    /\ ~canvas.dragging
    /\ CanvasCall("add_boundary", time, Some(canvas.sections), _add_boundary(canvas, time))

Undo ==
    /\ ~canvas.dragging
    /\ CanvasCall("undo", None, Some(Stacks(canvas)), undo(canvas))

Redo ==
    /\ ~canvas.dragging
    /\ CanvasCall("redo", None, IF op = "undo" THEN arg.before ELSE None, redo(canvas))

\* visualization.py lines 518-571: the commands of the context menu at a click
MenuSplitSegment(click_time) ==
    /\ BoundaryClicked(canvas, click_time) = None
    /\ ClickedSection(canvas, click_time)
    /\ SplitSegment(click_time)

MenuAddBoundary(click_time) ==
    /\ BoundaryClicked(canvas, click_time) = None
    /\ ~ClickedSection(canvas, click_time)
    /\ 0 < click_time /\ click_time < canvas.total_duration
    /\ AddBoundary(click_time)

\* app.py lines 344-387: the repair button is pressed
FixMidi ==
    /\ app.fix_btn = "normal"
    /\ op' = "fix"
    /\ arg' = [input |-> app.input_file, before |-> None]
    /\ IF app.input_file = None
       THEN UNCHANGED <<mid, fs, ret, out, calls, canvas, app>>
       ELSE LET detected == IF fs.input = "ok" THEN detect_original_bpm(mid) ELSE None
                target_bpm == IF Truthy(detected) THEN detected ELSE Some(120)
            IN  \E r \in {repair_midi(mid, fs, FixedFile, target_bpm)} :
                    /\ ret' = [raised |-> r.raised, success |-> r.success,
                               message |-> r.message, details |-> r.details]
                    /\ calls' = r.called
                    /\ fs' = [fs EXCEPT !.out_dir = @ \/ r.made_dir]
                    /\ out' = IF r.new_mid.written THEN r.new_mid ELSE out
                    /\ app' = IF r.success
                              THEN _on_segments_changed(
                                       [app EXCEPT !.output_file = Some(FixedFile)],
                                       canvas.sections, out'.written)
                              ELSE app
                    /\ UNCHANGED <<mid, canvas>>

\* app.py lines 297-308: the segment mode is switched
ToggleSegmentMode ==
    /\ app' = _update_button_states(
                  [app EXCEPT !.segment_mode_enabled = ~@])
    /\ op' = "segment_mode"
    /\ arg' = [input |-> app'.segment_mode_enabled, before |-> None]
    /\ UNCHANGED <<mid, fs, ret, out, calls, canvas>>

NextGui ==
    \/ ImportMidi
    \/ \E time \in PointerTimes : MouseDown(time)
    \/ \E time \in DragTimes : MouseDrag(time)
    \/ MouseUp
    \/ \E time \in PointerTimes : MenuSplitSegment(time)
    \/ \E time \in PointerTimes : MenuAddBoundary(time)
    \/ Undo
    \/ Redo
    \/ FixMidi
    \/ ToggleSegmentMode

SpecGui == InitGui /\ [][NextGui]_vars

\* the methods of the canvas that cut and merge sections, called with every
\* index and with the times of the pointer positions
NextCanvas ==
    \/ ImportMidi
    \/ \E index \in 0 .. MaxSegments : DeleteBoundary(index)
    \/ \E time \in PointerTimes : SplitSegment(time)
    \/ \E time \in PointerTimes : AddBoundary(time)
    \/ Undo
    \/ Redo

SpecCanvas == InitGui /\ [][NextCanvas]_vars


(***************************************************************************)
(* Properties of repair_midi and of the track copies.                      *)
(***************************************************************************)
Repaired == op = "repair" /\ ret.success

Exported == op = "export" /\ ret.success

\* the index in track of its k-th message that is not a set_tempo
KeptIndex(track, k) ==
    CHOOSE i \in Indices(track) :
        /\ track[i].type # "set_tempo"
        /\ Cardinality({j \in 1 .. i : track[j].type # "set_tempo"}) = k

\* output is input with exactly its set_tempo messages removed
IsInputWithoutTempo(output, input) ==
    /\ Len(output) = Cardinality({i \in Indices(input) : input[i].type # "set_tempo"})
    /\ \A k \in Indices(output) : output[k] = input[KeptIndex(input, k)]

TotalNotes(tracks) == SumSeq([k \in Indices(tracks) |-> CountNotes(tracks[k])])

\* C1: whenever repair_midi succeeds, track 0 of the output holds exactly one
\* set_tempo and exactly one 4/4 time_signature, both at tick 0, and the tempo
\* is bpm2tempo of the target BPM, whatever the input held.
InvC1 ==
    Repaired =>
        LET track == out.tracks[1]
            target == IF arg.target_bpm = None THEN ret.details.target_bpm[1]
                      ELSE arg.target_bpm[1]
        IN  /\ Cardinality({i \in Indices(track) : track[i].type = "set_tempo"}) = 1
            /\ Cardinality({i \in Indices(track) : track[i].type = "time_signature"}) = 1
            /\ \A i \in Indices(track) :
                  /\ track[i].type \in {"set_tempo", "time_signature"}
                  /\ AbsTick(track, i) = 0
                  /\ track[i].type = "set_tempo" => track[i].tempo = bpm2tempo(target)
                  /\ track[i].type = "time_signature" =>
                        track[i].numerator = 4 /\ track[i].denominator = 4

\* repair succeeded on an input with several tempo events in track 0 and in track 1
WitC1 ==
    /\ Repaired
    /\ Len(mid.tracks) >= 2
    /\ CountTempo(mid.tracks[1]) >= 2
    /\ CountTempo(mid.tracks[2]) >= 1

\* C2 (as claimed): after a successful repair the output holds as many
\* note_on/note_off events as the input, notes of track 0 included.
CexC2 == Repaired => TotalNotes(out.tracks) = TotalNotes(mid.tracks)

\* C3 (as claimed): after a successful repair or export every track i >= 1 of the
\* output is track i of the input without its set_tempo events, and the output
\* has as many tracks as the input.
CexC3 ==
    (Repaired \/ Exported) =>
        /\ Len(out.tracks) = Len(mid.tracks)
        /\ \A i \in 2 .. Len(mid.tracks) : IsInputWithoutTempo(out.tracks[i], mid.tracks[i])

\* C3 (amended): after a successful repair or export every track i >= 1 of the
\* output is track i of the input without its set_tempo events, order and delta
\* times kept; the output has as many tracks as the input when the input has at
\* least one track, and exactly one track (the new track 0) when it has none.
InvC3 ==
    (Repaired \/ Exported) =>
        /\ Len(out.tracks) = (IF mid.tracks = <<>> THEN 1 ELSE Len(mid.tracks))
        /\ \A i \in 2 .. Len(mid.tracks) : IsInputWithoutTempo(out.tracks[i], mid.tracks[i])

\* a track 1 that starts with a set_tempo and holds another message was copied
WitC3 ==
    /\ Repaired \/ Exported
    /\ Len(mid.tracks) >= 2
    /\ CountTempo(mid.tracks[2]) >= 1
    /\ Len(out.tracks[2]) >= 1
    /\ mid.tracks[2][1].type = "set_tempo"

\* C4: without target_bpm the target is the BPM of the first set_tempo of track
\* 0 rounded half-up (the integer b with b - 1/2 <= 60000000/tempo < b + 1/2),
\* and 80 when track 0 has no set_tempo or the file has no tracks; the written
\* tempo is that of the target; the ramp 90..110 is detected and written as 90.
InvC4 ==
    (op = "repair" /\ arg.target_bpm = None) =>
        LET b == ret.details.target_bpm[1]
        IN  /\ (mid.tracks = <<>> => b = 80)
            /\ (mid.tracks # <<>> =>
                  LET track == mid.tracks[1]
                  IN  /\ (\A i \in Indices(track) : track[i].type # "set_tempo") => b = 80
                      /\ \A i \in Indices(track) :
                            (/\ track[i].type = "set_tempo"
                             /\ \A j \in 1 .. (i - 1) : track[j].type # "set_tempo"
                             /\ track[i].tempo > 0)
                            => /\ (2 * b - 1) * track[i].tempo <= 2 * 60000000
                               /\ 2 * 60000000 < (2 * b + 1) * track[i].tempo
                               /\ ret.details.original_bpm = Some(b))
            /\ (ret.success => out.tracks[1][1].tempo = bpm2tempo(b))
            /\ (mid = RampFile => b = 90 /\ ret.success /\ out.tracks[1][1].tempo = 666667)

\* the ramp file was repaired without a target BPM
WitC4 == op = "repair" /\ arg.target_bpm = None /\ mid = RampFile /\ ret.success

(***************************************************************************)
(* Properties of _seconds_to_ticks_using_original_tempo.                   *)
(***************************************************************************)
LoadedTempoMap == _get_original_tempo_map(mid)

PositiveTempos(tempo_map) == \A i \in Indices(tempo_map) : tempo_map[i][2] > 0

\* C5 (as claimed): when the time passed is the time at which standard playback
\* of the file reaches tick k, the converter returns k, within one tick, also
\* when the first tempo event lies after tick 0.
CexC5 ==
    \A k \in RenderTicks :
        (/\ op = "convert"
         /\ PositiveTempos(LoadedTempoMap)
         /\ arg.seconds = RenderTime(k, LoadedTempoMap, mid.ticks_per_beat))
        => /\ ~ret.raised
           /\ ret.value - k \in {0 - 1, 0, 1}

\* C6: over a tempo map of two or more entries with positive tempos, a later
\* time never converts to an earlier tick: of two consecutive conversions with
\* T1 <= T2 the second result is not below the first.
InvC6 ==
    [][(/\ op = "convert"
        /\ op' = "convert"
        /\ Len(LoadedTempoMap) >= 2
        /\ PositiveTempos(LoadedTempoMap)
        /\ RLeq(arg.seconds, arg'.seconds))
       => (~ret.raised /\ ~ret'.raised /\ ret.value <= ret'.value)]_vars

\* a time beyond a tempo change at a later tick was converted
WitC6 ==
    /\ op = "convert"
    /\ Len(LoadedTempoMap) >= 2
    /\ PositiveTempos(LoadedTempoMap)
    /\ LoadedTempoMap[1][1] < LoadedTempoMap[2][1]
    /\ LoadedTempoMap[1][2] # LoadedTempoMap[2][2]
    /\ ~ret.raised
    /\ ret.value > LoadedTempoMap[2][1]

\* C7 (as claimed): the converter returns a tick value, never an error, also
\* when an entry of the tempo map has the tempo 0.
CexC7 == op = "convert" => ~ret.raised

(***************************************************************************)
(* Properties of export_segments_to_midi.                                  *)
(***************************************************************************)
\* the tempo events of the new track 0, which follow its time_signature
EmittedTempos == SubSeq(out.tracks[1], 2, Len(out.tracks[1]))

\* order is the list of section indices in ascending start, ties in list order
IsStableOrder(order, sections) ==
    /\ \A k, l \in Indices(sections) : k # l => order[k] # order[l]
    /\ \A k, l \in Indices(sections) :
          k < l => \/ RLess(sections[order[k]].start, sections[order[l]].start)
                   \/ /\ sections[order[k]].start = sections[order[l]].start
                      /\ order[k] < order[l]

ConstantTempoFile == File(1, 480, <<<<TempoMsg(DefaultTempo, 0)>>>>)

\* C8: after a successful export of a non-empty segment list, track 0 of the
\* output holds as many set_tempo events as there are segments, also when two
\* segments fall on the same tick.
InvC8 ==
    (Exported /\ arg.sections # <<>>) =>
        Cardinality({i \in Indices(out.tracks[1]) : out.tracks[1][i].type = "set_tempo"})
            = Len(arg.sections)

\* two segments with different starts were exported to the same tick
WitC8 ==
    /\ Exported
    /\ Len(arg.sections) = 2
    /\ arg.sections[1].start # arg.sections[2].start
    /\ Len(out.tracks[1]) = 3
    /\ out.tracks[1][3].time = 0

\* C9: after a successful export the k-th tempo event belongs to the k-th
\* segment in ascending start (ties in list order): its tempo is bpm2tempo of
\* that segment's bpm, its absolute tick is the conversion of that segment's
\* start against the original tempo map, and its delta is not negative; the
\* segments at 0, 10, 20 s over a constant 120 BPM at 480 ticks per beat give
\* the deltas 0, 9600, 9600.
InvC9 ==
    Exported =>
        LET sections == arg.sections
            n == Len(sections)
        IN  /\ Len(EmittedTempos) = n
            /\ \E order \in [1 .. n -> 1 .. n] :
                  /\ IsStableOrder(order, sections)
                  /\ \A k \in 1 .. n :
                        LET section == sections[order[k]]
                            ticks == _seconds_to_ticks_using_original_tempo(
                                         section.start, LoadedTempoMap, mid.ticks_per_beat)
                        IN  /\ EmittedTempos[k].type = "set_tempo"
                            /\ EmittedTempos[k].tempo = bpm2tempo(section.bpm)
                            /\ EmittedTempos[k].time >= 0
                            /\ ~ticks.raised
                            /\ AbsTick(EmittedTempos, k) = ticks.value
            /\ (mid = ConstantTempoFile /\ sections = ScenarioSections) =>
                  [k \in 1 .. 3 |-> EmittedTempos[k].time] = <<0, 9600, 9600>>

\* the scenario list was exported over the constant 120 BPM file
WitC9 == Exported /\ mid = ConstantTempoFile /\ arg.sections = ScenarioSections

\* C10 (as claimed): an export of one segment of any bpm >= 1, over a file
\* whose tempo map converts, succeeds and emits the tempo round(60000000 / bpm).
CexC10 ==
    (/\ op = "export"
     /\ Len(arg.sections) = 1
     /\ arg.sections[1].bpm >= 1
     /\ PositiveTempos(LoadedTempoMap))
    => /\ ret.success
       /\ EmittedTempos[1].tempo = bpm2tempo(arg.sections[1].bpm)

(***************************************************************************)
(* The tempo codec round trip.                                             *)
(***************************************************************************)
\* C11 as stated: for every positive integer BPM b the tempo round(60000000 / b),
\* converted back and rounded with int(x + 0.5), is b again.
CexC11 == op = "codec" => ret.bpm = arg.bpm

\* C11 amended: the round trip returns b for every integer BPM b from 1 to 7811;
\* at b = 7812 the tempo is 7680 and the BPM read back is 7813.
InvC11 ==
    op = "codec" =>
        /\ arg.bpm <= 7811 => ret.bpm = arg.bpm
        /\ arg.bpm = 7812 => ret.tempo = 7680 /\ ret.bpm = 7813

WitC11 == op = "codec" /\ arg.bpm = 7811 /\ ret.tempo = 7681 /\ ret.bpm = 7811

(***************************************************************************)
(* Repairing the output of a repair.                                       *)
(***************************************************************************)
\* C12: repairing the output of repair_midi(F, b) again with the same b succeeds
\* and writes a file whose track 0 and whose other tracks are those of the first
\* output (here mid, the input of the second call), with the same type and
\* resolution.
InvC12 ==
    op = "repair_again" =>
        /\ ret.success
        /\ out.written
        /\ out.type = mid.type /\ out.ticks_per_beat = mid.ticks_per_beat
        /\ Len(out.tracks) = Len(mid.tracks)
        /\ \A i \in Indices(mid.tracks) : out.tracks[i] = mid.tracks[i]

\* a first output of two tracks, the second one with notes, was repaired again
WitC12 ==
    /\ op = "repair_again" /\ arg.target_bpm = Some(120)
    /\ Len(mid.tracks) = 2 /\ Len(mid.tracks[2]) = 2
    /\ out.tracks[1] = <<TempoMsg(DefaultTempo, 0), TimeSignatureMsg>>

(***************************************************************************)
(* Failures of repair_midi and export_segments_to_midi and what they leave *)
(* on disk.                                                                *)
(***************************************************************************)
Called(name) == \E i \in Indices(calls) : calls[i] = name

\* the BPMs no set_tempo message can carry: 0 divides by zero, 1 to 3 give a
\* tempo above 0xffffff
InvalidBpm(bpm) == bpm = 0 \/ bpm * MaxTempo < MicrosecondsPerMinute

\* C13: repair_midi and export_segments_to_midi let no exception escape. A missing
\* input, an input that is no MIDI file, an invalid tempo value and a destination
\* that cannot be written each give success = false and a message that embeds the
\* cause; repair_midi reports a missing input as not found after the existence
\* check alone, without loading anything. A success needs none of these.
InvC13 ==
    op \in {"repair", "export"} =>
        /\ ~ret.raised
        /\ ret.success => fs.input = "ok" /\ fs.writable /\ ret.message.cause = ""
        /\ ~ret.success => ret.message.text # ""
        /\ fs.input = "missing" =>
              /\ ~ret.success
              /\ op = "repair" => /\ ret.message.text = "Input file not found"
                                  /\ calls = <<"exists">>
              /\ op = "export" => ret.message.cause = "no such file"
        /\ fs.input = "corrupt" => ~ret.success /\ ret.message.cause = "not a MIDI file"
        /\ fs.input = "ok" =>
              /\ (op = "repair" /\ arg.target_bpm # None /\ InvalidBpm(arg.target_bpm[1]))
                    => ~ret.success /\ ret.message.cause = "invalid tempo"
              /\ (op = "export" /\ \E i \in Indices(arg.sections) :
                                        InvalidBpm(arg.sections[i].bpm))
                    => ~ret.success /\ ret.message.cause = "invalid tempo"
              /\ (/\ ~fs.writable
                  /\ op = "repair" => arg.target_bpm = None \/ ~InvalidBpm(arg.target_bpm[1])
                  /\ op = "export" => arg.sections = <<>>)
                    => ~ret.success /\ ret.message.cause = "permission denied"

\* repair_midi was called on a path that does not exist
WitC13 ==
    /\ op = "repair" /\ fs.input = "missing" /\ ~ret.raised /\ ~ret.success
    /\ ret.message.text = "Input file not found" /\ ~Called("load")

\* C14: a call of repair_midi or export_segments_to_midi on an input that does
\* not exist or cannot be parsed fails and leaves the disk as it was: no
\* directory is made, no file is written, os.makedirs and save are not called.
InvC14 ==
    [][(op = "none" /\ op' \in {"repair", "export"} /\ fs.input \in {"missing", "corrupt"})
          => /\ ~ret'.success
             /\ fs' = fs /\ mid' = mid /\ out' = NoFile
             /\ \A i \in Indices(calls') : calls'[i] \notin {"makedirs", "save"}]_vars

\* an export of a file that cannot be parsed, to a directory that does not exist
WitC14 ==
    /\ op = "export" /\ fs.input = "corrupt" /\ arg.output_file = OutputFile
    /\ ~fs.out_dir /\ ~ret.success /\ out = NoFile

\* C15 as stated: whatever the output path, the input file holds after a call of
\* repair_midi what it held before.
CexC15 == [][(op = "none" /\ op' = "repair") => mid' = mid]_vars

InvC17 ==
    (op = "export" /\ arg.sections = <<>> /\ fs.input = "ok" /\ fs.writable) =>
        /\ ret.success
        /\ out.written
        /\ Len(out.tracks[1]) = 1
        /\ out.tracks[1][1].type = "time_signature"
        /\ out.tracks[1][1].numerator = 4 /\ out.tracks[1][1].denominator = 4
        /\ out.tracks[1][1].time = 0
        /\ Len(out.tracks) = (IF mid.tracks = <<>> THEN 1 ELSE Len(mid.tracks))
        /\ \A i \in 2 .. Len(mid.tracks) : IsInputWithoutTempo(out.tracks[i], mid.tracks[i])

\* an export without sections of a file whose second track has a tempo event
WitC17 ==
    /\ Exported /\ arg.sections = <<>>
    /\ Len(mid.tracks) = 2 /\ CountTempo(mid.tracks[2]) = 1 /\ Len(mid.tracks[2]) = 2
    /\ Len(out.tracks[2]) = 1

InvC19 ==
    (op = "convert" /\ LoadedTempoMap = <<>>) =>
        /\ ~ret.raised
        /\ ret.value = (2 * mid.ticks_per_beat * arg.seconds[1]) \div arg.seconds[2]

\* two thirds of a second at 2 ticks per beat are 2 ticks (8/3 truncated)
WitC19 ==
    /\ op = "convert" /\ LoadedTempoMap = <<>> /\ mid.ticks_per_beat = 2
    /\ arg.seconds = Rat(2, 3) /\ ret.value = 2

(***************************************************************************)
(* The diagnosis of analyze_midi.                                          *)
(***************************************************************************)
\* the file can be loaded and some track of it has a set_tempo event
SomeTrackHasTempo ==
    /\ fs.input = "ok"
    /\ \E k \in Indices(mid.tracks) : \E i \in Indices(mid.tracks[k]) :
          mid.tracks[k][i].type = "set_tempo"

\* C20: analyze_midi on a file that loads and has no set_tempo event in any track
\* reports an issue that starts with NO TEMPO and is_valid = false; for every
\* input is_valid is true exactly when some track has a tempo event and the list
\* of issues is empty.
InvC20 ==
    op = "analyze" =>
        /\ (fs.input = "ok" /\ ~SomeTrackHasTempo) =>
              /\ \E i \in Indices(ret.issues) : ret.issues[i] = "NO TEMPO"
              /\ ~ret.is_valid
        /\ ret.is_valid <=> (SomeTrackHasTempo /\ ret.issues = <<>>)

\* the file of two tracks of notes was analyzed
WitC20 ==
    /\ op = "analyze" /\ mid = NoTempoFile /\ fs.input = "ok"
    /\ ret.issues = <<"NO TEMPO">> /\ ~ret.is_valid /\ ~ret.has_tempo

\* the distinct tempos of the set_tempo events of all tracks of the input
DistinctTempos ==
    UNION {{mid.tracks[k][i].tempo :
                i \in {j \in Indices(mid.tracks[k]) : mid.tracks[k][j].type = "set_tempo"}} :
           k \in Indices(mid.tracks)}

HasIssue(issue) == \E i \in Indices(ret.issues) : ret.issues[i] = issue

InvC22 ==
    op = "analyze" =>
        /\ ~ret.raised
        /\ fs.input = "missing" =>
              ~ret.file_exists /\ ~ret.is_valid /\ ret.issues = <<"File not found">>
        /\ (fs.input = "corrupt" \/ (fs.input = "ok" /\ 0 \in DistinctTempos)) =>
              /\ ret.file_exists /\ ~ret.is_valid
              /\ ret.issues # <<>> /\ ret.issues[Len(ret.issues)] = "Error analyzing MIDI"

\* a file that is no MIDI file was analyzed
WitC22 ==
    /\ op = "analyze" /\ fs.input = "corrupt" /\ ~ret.raised
    /\ ret.issues = <<"Error analyzing MIDI">> /\ ret.file_exists

(***************************************************************************)
(* The command line tool.                                                  *)
(***************************************************************************)
\* the position of a call in the calls of main, 0 when it is not made
CallIndex(name) ==
    IF Called(name) THEN CHOOSE i \in Indices(calls) : calls[i] = name ELSE 0

\* repair_midi succeeds on this disk with these arguments
RepairCanSucceed ==
    /\ fs.input = "ok" /\ fs.writable
    /\ arg.bpm = None \/ ~InvalidBpm(arg.bpm[1])

\* C23: with a missing input the CLI returns 1 and calls neither analyze_midi nor
\* repair_midi; with --analyze-only it calls analyze_midi, not repair_midi,
\* writes nothing and returns 0; otherwise it calls analyze_midi before
\* repair_midi and returns 0 when repair_midi reports success and 1 when it
\* reports failure.
InvC23 ==
    [][(op = "none" /\ op' = "cli") =>
          /\ fs.input = "missing" =>
                /\ ret'.exit_code = 1
                /\ calls' = <<"exists">>
                /\ UNCHANGED <<mid, fs, out>>
          /\ (fs.input # "missing" /\ arg'.analyze_only) =>
                /\ ret'.exit_code = 0
                /\ calls' = <<"exists", "analyze_midi">>
                /\ UNCHANGED <<mid, fs, out>>
          /\ (fs.input # "missing" /\ ~arg'.analyze_only) =>
                /\ SubSeq(calls', 1, 3) = <<"exists", "analyze_midi", "repair_midi">>
                /\ ret'.exit_code = 0 <=> ret'.repaired
                /\ ret'.exit_code = 1 <=> ~ret'.repaired
                /\ ret'.repaired <=> out'.written
                /\ ret'.repaired <=> RepairCanSucceed']_vars

\* a repair through the CLI that failed on a file that is no MIDI file
WitC23 ==
    /\ op = "cli" /\ ~arg.analyze_only /\ fs.input = "corrupt"
    /\ ret.exit_code = 1 /\ CallIndex("analyze_midi") = 2 /\ CallIndex("repair_midi") = 3

(***************************************************************************)
(* The piecewise conversion and the tempo map.                             *)
(***************************************************************************)
\* the elapsed seconds at entry i of the loaded tempo map
ElapsedAt(i) == RenderTime(LoadedTempoMap[i][1], LoadedTempoMap, mid.ticks_per_beat)

\* the last entry of the loaded tempo map reached at the time asked for
Governing ==
    CHOOSE i \in Indices(LoadedTempoMap) :
        /\ RLeq(ElapsedAt(i), arg.seconds)
        /\ \A j \in Indices(LoadedTempoMap) : j > i => ~RLeq(ElapsedAt(j), arg.seconds)

\* C24: for a tempo map that starts at tick 0 with positive tempos, a time T at
\* or after the elapsed seconds S of an entry (t, tau) and before those of the
\* next entry, or after the last entry, converts to
\* t + trunc((T - S) * P * bpm(tau) / 60), where P * bpm(tau) / 60 is
\* P * 1000000 / tau; the residual is truncated.
InvC24 ==
    (/\ op = "convert" /\ LoadedTempoMap # <<>>
     /\ LoadedTempoMap[1][1] = 0 /\ PositiveTempos(LoadedTempoMap)) =>
        /\ ~ret.raised
        /\ ret.value = LoadedTempoMap[Governing][1]
                       + RTrunc(RMul(RSub(arg.seconds, ElapsedAt(Governing)),
                                     Rat(mid.ticks_per_beat * 1000000,
                                         LoadedTempoMap[Governing][2])))

\* two thirds of a second at 2 ticks per beat, within the first span of a map of
\* two tempos: 8/3 ticks, truncated to 2
WitC24 ==
    /\ op = "convert" /\ Len(LoadedTempoMap) = 2 /\ LoadedTempoMap[1] = <<0, DefaultTempo>>
    /\ LoadedTempoMap[2][1] > 0 /\ LoadedTempoMap[2][2] = 1000000
    /\ mid.ticks_per_beat = 2 /\ arg.seconds = Rat(2, 3) /\ ret.value = 2

(***************************************************************************)
(* The tempo map of the original file.                                     *)
(***************************************************************************)
\* the index in track of its k-th set_tempo message
TempoIndex(track, k) ==
    CHOOSE i \in Indices(track) :
        /\ track[i].type = "set_tempo"
        /\ Cardinality({j \in 1 .. i : track[j].type = "set_tempo"}) = k

RECURSIVE TickAt(_, _)
\* the sum of the delta times of the first i messages of a track
TickAt(track, i) == IF i = 0 THEN 0 ELSE track[i].time + TickAt(track, i - 1)

\* C25: the tempo map has one entry per set_tempo event of track 0, in the order
\* of the events; the entry of an event is its tempo at the sum of the delta
\* times of the events of track 0 up to and including it; the ticks do not
\* decrease along the map; the map is empty when the file has no tracks or its
\* track 0 has no tempo event.
InvC25 ==
    op = "tempo_map" =>
        IF mid.tracks = <<>> THEN ret = <<>>
        ELSE LET track == mid.tracks[1]
             IN  /\ Len(ret) = Cardinality({i \in Indices(track) :
                                                track[i].type = "set_tempo"})
                 /\ \A k \in Indices(ret) :
                       /\ ret[k][1] = TickAt(track, TempoIndex(track, k))
                       /\ ret[k][2] = track[TempoIndex(track, k)].tempo
                 /\ \A k \in 1 .. (Len(ret) - 1) : ret[k][1] <= ret[k + 1][1]

\* a tempo event after a note, both with a delta time
WitC25 ==
    /\ op = "tempo_map"
    /\ mid.tracks # <<>>
    /\ mid.tracks[1] = <<NoteMsg("note_on", MaxDelta), TempoMsg(DefaultTempo, MaxDelta)>>
    /\ ret = <<<<2 * MaxDelta, DefaultTempo>>>>

(***************************************************************************)
(* The positions of the copied events.                                     *)
(***************************************************************************)
\* C26 as stated: every event copied into a track i >= 1 of the output of
\* repair_midi or export_segments_to_midi lies at the tick (sum of the delta
\* times up to and including it) at which it lies in the input track.
CexC26 ==
    (Repaired \/ Exported) =>
        \A i \in 2 .. Len(mid.tracks) : \A k \in Indices(out.tracks[i]) :
            TickAt(out.tracks[i], k) = TickAt(mid.tracks[i], KeptIndex(mid.tracks[i], k))

(***************************************************************************)
(* The segments of the canvas and the export button.                       *)
(***************************************************************************)
\* the operations that cut or merge sections
Edits == {"split", "add_boundary", "delete_boundary"}

CexC28 ==
    LET sections == canvas.sections
    IN  /\ \A i \in Indices(sections) : sections[i].end > sections[i].start
        /\ \A i \in 1 .. (Len(sections) - 1) :
               /\ sections[i].start <= sections[i + 1].start
               /\ sections[i].end = sections[i + 1].start

\* C29: redo() after an undo() that had a snapshot to restore leaves the list
\* of sections, the undo stack and the redo stack as they were before the
\* undo(); undo() on an empty undo stack and redo() on an empty redo stack
\* change neither the canvas nor the window.
InvC29 ==
    [][/\ (op = "undo" /\ arg.before[1].undo_stack # <<>> /\ op' = "redo") =>
              Stacks(canvas') = arg.before[1]
       /\ (op' = "undo" /\ canvas.undo_stack = <<>>) => UNCHANGED <<canvas, app>>
       /\ (op' = "redo" /\ canvas.redo_stack = <<>>) => UNCHANGED <<canvas, app>>]_vars

\* a redo that has followed the undo of a cut, with a snapshot left below
WitC29 ==
    /\ op = "redo"
    /\ arg.before # None
    /\ arg.before[1].undo_stack # <<>>
    /\ Len(canvas.sections) > 1
    /\ Len(canvas.undo_stack) > 1
    /\ Stacks(canvas) = arg.before[1]

\* C30 as stated: the export button is enabled exactly when there is a section
\* or the file written by the one-click repair exists.
CexC30 ==
    app.export_btn = "normal" <=>
        (canvas.sections # <<>> \/ (app.output_file # None /\ OutputExists))

====
